---- MODULE Spec2Model ----
(***************************************************************************)
(* Model of pydantic_ssm_settings: the AWS SSM settings source             *)
(* (source.py) and the source chain it is placed in (settings.py).         *)
(*                                                                         *)
(* Python strings are sequences of one-character strings, Python dicts are *)
(* insertion-ordered sequences of [k, v] entries, Python values are tagged *)
(* records (None, str, int, dict).  A raised exception is the name of its  *)
(* class.                                                                  *)
(***************************************************************************)
EXTENDS Integers, Sequences, FiniteSets, TLC

VARIABLES
    pc,                   \* "new" | "fetching" | "ready" | "raised"
    caller,               \* who builds the source: settings_customise_sources or direct code
    settings_cls,         \* name of the settings class the source is built for
    ssm_prefix,           \* [kind, parts]: the ssm_prefix argument of __init__
    case_sensitive,       \* self.case_sensitive (from the settings class config)
    env_nested_delimiter, \* self.env_nested_delimiter (None or a str)
    client_created,       \* a boto3 client was created (self.client was read)
    pages_requested,      \* get_parameters_by_path pages requested so far
    output,               \* the local dict `output` of load_from_ssm
    ssm_values,           \* self.ssm_values (assigned when __init__ completes)
    exc,                  \* exception that left __init__ ("" when none)
    fetched,              \* history: parameters received, in order of arrival
    fetch_error,          \* history: exception the paginator raised ("" when none)
    chain,                \* tuple returned by settings_customise_sources
    call                  \* the field resolution in progress: last call and its result

vars == <<pc, caller, settings_cls, ssm_prefix, case_sensitive,
          env_nested_delimiter, client_created, pages_requested, output,
          ssm_values, exc, fetched, fetch_error, chain, call>>

----------------------------------------------------------------------------
(* Bounds of the model *)

\* pages one paginated fetch may request
MaxPages == 2

\* parameters one page may carry
MaxPageLen == 2

----------------------------------------------------------------------------
(* Python values *)

None == [t |-> "None"]

Str(s) == [t |-> "str", s |-> s]

PyInt(n) == [t |-> "int", n |-> n]

Dict(d) == [t |-> "dict", d |-> d]

\* the strings used below
s_f == <<"f">>

s_F == <<"F">>

s_h == <<"h">>

s_b == <<"b">>

s_c == <<"c">>

s_p == <<"p">>

s_f_b == <<"f", "_", "b">>

s_f_b_c == <<"f", "_", "b", "_", "c">>

s_root == <<"/">>

\* '{"b":"x"}'
s_obj == <<"{", "\"", "b", "\"", ":", "\"", "x", "\"", "}">>

\* '9'
s_num == <<"9">>

\* 'x', no JSON document
s_bad == <<"x">>

\* 'o'
s_o == <<"o">>

----------------------------------------------------------------------------
(* str methods *)

\* str.startswith
StartsWith(s, p) == Len(p) <= Len(s) /\ SubSeq(s, 1, Len(p)) = p

LowerChar(ch) == CASE ch = "F" -> "f" [] ch = "N" -> "n" [] OTHER -> ch

\* str.lower
Lower(s) == [i \in 1..Len(s) |-> LowerChar(s[i])]

\* positions of s where sep occurs
Occurrences(s, sep) ==
    {i \in 1..(Len(s) - Len(sep) + 1) : SubSeq(s, i, i + Len(sep) - 1) = sep}

Min(S) == CHOOSE x \in S : \A y \in S : x <= y

RECURSIVE SplitOn(_, _)
\* str.split(sep) for a str sep
SplitOn(s, sep) ==
    IF Occurrences(s, sep) = {} THEN <<s>>
    ELSE LET i == Min(Occurrences(s, sep))
         IN  <<SubSeq(s, 1, i - 1)>> \o SplitOn(SubSeq(s, i + Len(sep), Len(s)), sep)

\* str.split(None): split on runs of whitespace (no string here holds any)
SplitWhitespace(s) == IF s = <<>> THEN <<>> ELSE <<s>>

\* str.split(delimiter), delimiter a Python value
Split(s, delimiter) ==
    IF delimiter = None THEN SplitWhitespace(s) ELSE SplitOn(s, delimiter.s)

\* f"{value}" of a Python value that is None or a str
Format(value) ==
    IF value = None THEN <<"N", "o", "n", "e">> ELSE value.s

RECURSIVE Join(_, _)
\* sep.join(parts)
Join(parts, sep) ==
    IF parts = <<>> THEN <<>>
    ELSE IF Len(parts) = 1 THEN parts[1]
    ELSE parts[1] \o sep \o Join(Tail(parts), sep)

----------------------------------------------------------------------------
(* dict methods; a dict is a sequence of entries [k, v] with distinct keys *)

Keys(d) == {d[i].k : i \in 1..Len(d)}

IndexOf(d, key) == CHOOSE i \in 1..Len(d) : d[i].k = key

\* dict.get(key)
DictGet(d, key) == IF key \in Keys(d) THEN d[IndexOf(d, key)].v ELSE None

\* d[key] = value
DictSet(d, key, value) ==
    IF key \in Keys(d)
    THEN [d EXCEPT ![IndexOf(d, key)] = [k |-> key, v |-> value]]
    ELSE Append(d, [k |-> key, v |-> value])

----------------------------------------------------------------------------
(* pathlib.Path: a path is the sequence of its parts, "/" first when absolute *)

\* Path.is_absolute
is_absolute(parts) == parts # <<>> /\ parts[1] = s_root

\* Path.relative_to: the parts after `other`, ValueError when not below it
relative_to(parts, other) ==
    IF Len(other) <= Len(parts) /\ SubSeq(parts, 1, Len(other)) = other
    THEN [raised |-> "", parts |-> SubSeq(parts, Len(other) + 1, Len(parts))]
    ELSE [raised |-> "ValueError", parts |-> <<>>]

\* Path.as_posix of a relative path
as_posix(parts) == Join(parts, s_root)

----------------------------------------------------------------------------
(* The remote store, as the paginator presents it *)

\* the prefixes a caller may pass: Path("/p"), Path("p"), "/p", "p"
Prefixes ==
    {[kind |-> k, parts |-> ps] :
        k \in {"Path", "str"}, ps \in {<<s_root, s_p>>, <<s_p>>}}

\* parameters the store may hold below the prefix: [rel, Value]
StoreParameters ==
    { [rel |-> <<s_f>>, Value |-> s_obj],
      [rel |-> <<s_f>>, Value |-> s_bad],
      [rel |-> <<s_F>>, Value |-> s_num],
      [rel |-> <<s_f, s_b>>, Value |-> s_o],
      [rel |-> <<s_f_b_c>>, Value |-> s_o] }

\* parameter["Name"] of a store parameter fetched below `prefix`
Name(prefix, sp) == prefix.parts \o sp.rel

\* sequences over S of length at most n without repeated elements
SeqsUpTo(S, n) ==
    UNION {{q \in [1..m -> S] : \A i, j \in 1..m : i # j => q[i] # q[j]} : m \in 0..n}

\* page["Parameters"] of the pages the service may return: names are unique
\* in the store, so no page repeats a name
Pages ==
    {pg \in SeqsUpTo(StoreParameters, MaxPageLen) :
        \A i, j \in 1..Len(pg) : i # j => pg[i].rel # pg[j].rel}

\* exceptions the paginator may raise while a page is requested
FetchErrors == {"ClientError", "ConnectTimeoutError", "ReadTimeoutError"}

\* `except ClientError` catches e: botocore's timeout and connection errors
\* derive from BotoCoreError, not from ClientError
CaughtAsClientError(e) == e = "ClientError"

----------------------------------------------------------------------------
(* AwsSsmSettingsSource.load_from_ssm *)

\* the inner loop statements without the case folding of the key
StoreParameter_no_lower(out, prefix, cs, sp) ==
    LET key == as_posix(relative_to(Name(prefix, sp), prefix.parts).parts)
    IN  DictSet(out, key, Str(sp.Value))

\* the statements of the inner loop: one parameter into `output`
StoreParameter(out, prefix, cs, sp) ==
    LET key == as_posix(relative_to(Name(prefix, sp), prefix.parts).parts)
    IN  DictSet(out, IF cs THEN key ELSE Lower(key), Str(sp.Value))

RECURSIVE StorePage(_, _, _, _)
\* the inner loop over page["Parameters"]
StorePage(out, prefix, cs, page) ==
    IF page = <<>> THEN out
    ELSE StorePage(StoreParameter(out, prefix, cs, page[1]), prefix, cs, Tail(page))

----------------------------------------------------------------------------
(* Settings classes and their fields *)

\* a field: its name, its annotation and its validation_alias as
\* convert_to_aliases() gives it (<<>> when the field has none)
Field(name, annotation, aliases) ==
    [name |-> name, annotation |-> annotation, aliases |-> aliases]

\* model_fields of the settings classes a source is built for
model_fields(cls) ==
    CASE cls = "SimpleSettings" -> {Field(s_f, "str", <<>>)}
      [] cls = "ParentSetting"  -> {Field(s_f, "ChildSetting", <<>>)}
      [] cls = "UnionSettings"  -> {Field(s_f, "Union[ChildSetting, str]", <<>>),
                                    Field(s_F, "Union[int, str]", <<>>)}
      [] cls = "MixedSettings"  -> {Field(s_F, "str", <<>>),
                                    Field(s_f_b, "ChildSetting", <<>>),
                                    Field(s_h, "str", << <<s_F>>, <<s_f>> >>),
                                    Field(s_c, "str", << <<s_f, s_b>> >>)}

SettingsClasses ==
    {"SimpleSettings", "ParentSetting", "UnionSettings", "MixedSettings"}

\* get_args of a Union annotation
get_args(annotation) ==
    CASE annotation = "Union[ChildSetting, str]" -> {"ChildSetting", "str"}
      [] annotation = "Union[int, str]" -> {"int", "str"}
      [] OTHER -> {}

\* origin_is_union(get_origin(annotation))
origin_is_union(annotation) == get_args(annotation) # {}

\* _annotation_is_complex: models, mappings and sequences are complex;
\* str, int and a Union itself are not
_annotation_is_complex(annotation) == annotation = "ChildSetting"

\* PydanticBaseSettingsSource.field_is_complex
field_is_complex(field) == _annotation_is_complex(field.annotation)

\* AwsSsmSettingsSource._union_is_complex
_union_is_complex(annotation) ==
    \E arg \in get_args(annotation) : _annotation_is_complex(arg)

\* _field_is_complex tolerating parse failures of directly complex fields too
_field_is_complex_lenient(field) ==
    IF field_is_complex(field)
    THEN [is_complex |-> TRUE, allow_parse_failure |-> TRUE]
    ELSE IF origin_is_union(field.annotation) /\ _union_is_complex(field.annotation)
    THEN [is_complex |-> TRUE, allow_parse_failure |-> TRUE]
    ELSE [is_complex |-> FALSE, allow_parse_failure |-> FALSE]

\* AwsSsmSettingsSource._field_is_complex: [is_complex, allow_parse_failure]
_field_is_complex(field) ==
    IF field_is_complex(field)
    THEN [is_complex |-> TRUE, allow_parse_failure |-> FALSE]
    ELSE IF origin_is_union(field.annotation) /\ _union_is_complex(field.annotation)
    THEN [is_complex |-> TRUE, allow_parse_failure |-> TRUE]
    ELSE [is_complex |-> FALSE, allow_parse_failure |-> FALSE]

\* config env_prefix of the settings classes: the default ''
env_prefix == <<>>

\* PydanticBaseEnvSettingsSource._apply_case_sensitive
_apply_case_sensitive(cs, value) == IF cs THEN value ELSE Lower(value)

\* PydanticBaseEnvSettingsSource._extract_field_info: the list of
\* [field_key, env_name, value_is_complex] candidates of a field
_extract_field_info(cs, field) ==
    IF field.aliases # <<>>
    THEN [i \in 1..Len(field.aliases) |->
             [field_key |-> field.aliases[i][1],
              env_name |-> _apply_case_sensitive(cs, field.aliases[i][1]),
              value_is_complex |-> Len(field.aliases[i]) > 1]]
    ELSE << [field_key |-> field.name,
             env_name |-> _apply_case_sensitive(cs, env_prefix \o field.name),
             value_is_complex |-> FALSE] >>

----------------------------------------------------------------------------
(* AwsSsmSettingsSource.get_field_value *)

RECURSIVE get_field_value_loop(_, _, _)
\* the for loop over the candidates, leaving at the first value found;
\* the loop variables keep the last candidate when none has a value
get_field_value_loop(values, infos, i) ==
    LET env_val == DictGet(values, infos[i].env_name)
    IN  IF env_val # None \/ i = Len(infos)
        THEN [env_val |-> env_val, field_key |-> infos[i].field_key,
              value_is_complex |-> infos[i].value_is_complex]
        ELSE get_field_value_loop(values, infos, i + 1)

get_field_value(values, cs, field) ==
    get_field_value_loop(values, _extract_field_info(cs, field), 1)

----------------------------------------------------------------------------
(* AwsSsmSettingsSource.prepare_field_value and what it calls *)

\* json.loads of the values the store may hold; JSONDecodeError is a ValueError
json_loads(s) ==
    CASE s = s_obj -> [raised |-> "", value |-> Dict(<< [k |-> s_b, v |-> Str(<<"x">>)] >>)]
      [] s = s_num -> [raised |-> "", value |-> PyInt(9)]
      [] OTHER -> [raised |-> "ValueError", value |-> None]

\* PydanticBaseSettingsSource.decode_complex_value
decode_complex_value(value) == json_loads(value.s)

RECURSIVE deep_update_from(_, _, _)
\* pydantic.v1.utils.deep_update: the loop over updating.items() from entry i
deep_update_from(updated, updating, i) ==
    IF i > Len(updating) THEN updated
    ELSE LET k == updating[i].k
             v == updating[i].v
             old == DictGet(updated, k)
             new == IF k \in Keys(updated) /\ old.t = "dict" /\ v.t = "dict"
                    THEN Dict(deep_update_from(old.d, v.d, 1))
                    ELSE v
         IN  deep_update_from(DictSet(updated, k, new), updating, i + 1)

deep_update(mapping, updating) == deep_update_from(mapping, updating, 1)

RECURSIVE SetAtPath(_, _, _, _)
\* lines 108-111: walk `keys` from dict d with setdefault(key, {}), then
\* assign d[last_key] = val at the level reached.  A str met on the way has
\* neither setdefault nor item assignment.
SetAtPath(d, keys, last_key, val) ==
    IF keys = <<>> THEN [raised |-> "", d |-> DictSet(d, last_key, val)]
    ELSE LET k == keys[1]
             child == IF k \in Keys(d) THEN DictGet(d, k) ELSE Dict(<<>>)
         IN  IF child.t # "dict"
             THEN [raised |-> IF Len(keys) > 1 THEN "AttributeError" ELSE "TypeError",
                   d |-> d]
             ELSE LET sub == SetAtPath(child.d, Tail(keys), last_key, val)
                  IN  [raised |-> sub.raised, d |-> DictSet(d, k, Dict(sub.d))]

RECURSIVE explode_loop(_, _, _, _, _)
\* lines 104-111: the loop over env_vars.items() from entry i
explode_loop(result, prefixes, delimiter, env_vars, i) ==
    IF i > Len(env_vars) THEN [raised |-> "", value |-> Dict(result)]
    ELSE LET env_name == env_vars[i].k
             pieces == Split(env_name, delimiter)
         IN  IF ~ \E prefix \in prefixes : StartsWith(env_name, prefix)
             THEN explode_loop(result, prefixes, delimiter, env_vars, i + 1)
             ELSE IF Len(pieces) < 2
             THEN [raised |-> "ValueError", value |-> None]
             ELSE LET keys == SubSeq(pieces, 2, Len(pieces) - 1)
                      last_key == pieces[Len(pieces)]
                      set == SetAtPath(result, keys, last_key, env_vars[i].v)
                  IN  IF set.raised # ""
                      THEN [raised |-> set.raised, value |-> None]
                      ELSE explode_loop(set.d, prefixes, delimiter, env_vars, i + 1)

\* AwsSsmSettingsSource._explode_ssm_values, given what
\* field.field_info.extra["env_names"] holds
_explode_ssm_values(env_names, delimiter, env_vars) ==
    explode_loop(<<>>, {env_name \o Format(delimiter) : env_name \in env_names},
                 delimiter, env_vars, 1)

\* self.explode_ssm_values(field, field_name, self.ssm_values): the class
\* defines _explode_ssm_values and no base class defines explode_ssm_values,
\* so the attribute lookup raises
explode_ssm_values(field, delimiter, env_vars) ==
    [raised |-> "AttributeError", value |-> None]

\* AwsSsmSettingsSource.prepare_field_value: [raised, value]
prepare_field_value(field, delimiter, values, value, value_is_complex) ==
    LET c == _field_is_complex(field)
        Return(v) == [raised |-> "", value |-> v]
        Raise(e) == [raised |-> e, value |-> None]
    IN  IF c.is_complex \/ value_is_complex
        THEN IF value = None
             THEN LET env_val_built == explode_ssm_values(field, delimiter, values)
                  IN  IF env_val_built.raised # "" THEN Raise(env_val_built.raised)
                      ELSE IF env_val_built.value.d # <<>>
                      THEN Return(env_val_built.value)
                      ELSE Return(None)
             ELSE LET dec == decode_complex_value(value)
                      decoded == IF dec.raised = "" THEN dec.value ELSE value
                  IN  IF dec.raised # "" /\ ~c.allow_parse_failure
                      THEN Raise(dec.raised)
                      ELSE IF decoded.t = "dict"
                      THEN LET ex == explode_ssm_values(field, delimiter, values)
                           IN  IF ex.raised # "" THEN Raise(ex.raised)
                               ELSE Return(Dict(deep_update(decoded.d, ex.value.d)))
                      ELSE Return(decoded)
        ELSE IF value # None THEN Return(value) ELSE Return(None)

----------------------------------------------------------------------------
(* settings.py: the source chain *)

\* the chain with the remote-parameter source placed ahead of the init values
settings_customise_sources_ssm_first ==
    <<"ssm_settings", "init_settings", "env_settings", "dotenv_settings",
      "file_secret_settings">>

\* the tuple AwsSsmSourceConfig.settings_customise_sources returns
settings_customise_sources ==
    <<"init_settings", "env_settings", "dotenv_settings", "ssm_settings",
      "file_secret_settings">>

\* the sources of the chain other than ssm_settings
PeerSources ==
    {"init_settings", "env_settings", "dotenv_settings", "file_secret_settings"}

\* what a peer source holds for a field: nothing, or a value of its own
PeerValue(src) ==
    CASE src = "init_settings" -> Str(<<"i">>)
      [] src = "env_settings" -> Str(<<"e">>)
      [] src = "dotenv_settings" -> Str(<<"d">>)
      [] src = "file_secret_settings" -> Str(<<"s">>)

RECURSIVE FirstPresent(_, _, _)
\* the host's merge of one field across the chain: the value of the first
\* source, in chain order, that holds the field
FirstPresent(sources, held, i) ==
    IF i > Len(sources) THEN None
    ELSE IF held[sources[i]] # None THEN held[sources[i]]
    ELSE FirstPresent(sources, held, i + 1)

----------------------------------------------------------------------------
(* State machine *)

NoField == Field(<<>>, "", <<>>)

NoPeers == [src \in PeerSources |-> None]

NoCall ==
    [op |-> "none", field |-> NoField, env_val |-> None, field_key |-> <<>>,
     value_is_complex |-> FALSE, style |-> "", raised |-> "", value |-> None,
     peers |-> NoPeers, final |-> None]

Delimiters == {None, Str(s_root), Str(<<"_">>)}

Init ==
    /\ pc = "new"
    /\ caller \in {"settings_customise_sources", "direct"}
    /\ settings_cls \in SettingsClasses
    /\ ssm_prefix \in Prefixes
    /\ case_sensitive \in BOOLEAN
    \* settings_customise_sources passes no env_nested_delimiter: the default None
    /\ env_nested_delimiter \in
           IF caller = "settings_customise_sources" THEN {None} ELSE Delimiters
    /\ client_created = FALSE
    /\ pages_requested = 0
    /\ output = <<>>
    /\ ssm_values = <<>>
    /\ exc = ""
    /\ fetched = <<>>
    /\ fetch_error = ""
    /\ chain = <<>>
    /\ call = NoCall

\* load_from_ssm lines 52-53: the exception the check of the prefix raises
\* ("" when none): a str has no is_absolute
prefix_check(prefix) ==
    IF prefix.kind # "Path" THEN "AttributeError"
    ELSE IF ~is_absolute(prefix.parts) THEN "ValueError"
    ELSE ""

\* __init__ up to the first page request: the prefix check, then the client
\* and the paginator
Construct ==
    /\ pc = "new"
    /\ IF prefix_check(ssm_prefix) # ""
       THEN /\ pc' = "raised"
            /\ exc' = prefix_check(ssm_prefix)
            /\ UNCHANGED client_created
       ELSE /\ pc' = "fetching"
            /\ client_created' = TRUE
            /\ UNCHANGED exc
    /\ UNCHANGED <<caller, settings_cls, ssm_prefix, case_sensitive,
                   env_nested_delimiter, pages_requested, output, ssm_values,
                   fetched, fetch_error, chain, call>>

\* the value of `chain` once the source is built
ChainAfterConstruction ==
    IF caller = "settings_customise_sources" THEN settings_customise_sources ELSE <<>>

\* one iteration of `for page in response_iterator`
FetchPage(page) ==
    /\ pc = "fetching"
    /\ pages_requested < MaxPages
    /\ \A i \in 1..Len(page), j \in 1..Len(fetched) : page[i].rel # fetched[j].rel
    /\ pages_requested' = pages_requested + 1
    /\ output' = StorePage(output, ssm_prefix, case_sensitive, page)
    /\ fetched' = fetched \o page
    /\ UNCHANGED <<pc, caller, settings_cls, ssm_prefix, case_sensitive,
                   env_nested_delimiter, client_created, ssm_values, exc,
                   fetch_error, chain, call>>

\* the iterator is exhausted: load_from_ssm returns output, __init__ completes
FetchDone ==
    /\ pc = "fetching"
    /\ pages_requested >= 1
    /\ pc' = "ready"
    /\ ssm_values' = output
    /\ chain' = ChainAfterConstruction
    /\ UNCHANGED <<caller, settings_cls, ssm_prefix, case_sensitive,
                   env_nested_delimiter, client_created, pages_requested,
                   output, exc, fetched, fetch_error, call>>

\* a page request raises e: `except ClientError` logs and falls through to
\* `return output`; any other exception leaves load_from_ssm and __init__
FetchFail(e) ==
    /\ pc = "fetching"
    /\ pages_requested < MaxPages
    /\ pages_requested' = pages_requested + 1
    /\ fetch_error' = e
    /\ IF CaughtAsClientError(e)
       THEN /\ pc' = "ready"
            /\ ssm_values' = output
            /\ chain' = ChainAfterConstruction
            /\ UNCHANGED exc
       ELSE /\ pc' = "raised"
            /\ exc' = e
            /\ UNCHANGED <<ssm_values, chain>>
    /\ UNCHANGED <<caller, settings_cls, ssm_prefix, case_sensitive,
                   env_nested_delimiter, client_created, output, fetched, call>>

\* get_field_value taking the value out of the mapping (pop instead of get)
GetFieldValue_pop(field) ==
    /\ pc = "ready"
    /\ field \in model_fields(settings_cls)
    /\ LET r == get_field_value(ssm_values, case_sensitive, field)
           name == _apply_case_sensitive(case_sensitive, r.field_key)
       IN  /\ call' = [NoCall EXCEPT !.op = "get_field_value", !.field = field,
                                     !.env_val = r.env_val, !.field_key = r.field_key,
                                     !.value_is_complex = r.value_is_complex]
           /\ ssm_values' = SelectSeq(ssm_values, LAMBDA entry : entry.k # name)
    /\ UNCHANGED <<pc, caller, settings_cls, ssm_prefix, case_sensitive,
                   env_nested_delimiter, client_created, pages_requested,
                   output, exc, fetched, fetch_error, chain>>

\* the host calls get_field_value for a field of the settings class
GetFieldValue(field) ==
    /\ pc = "ready"
    /\ field \in model_fields(settings_cls)
    /\ LET r == get_field_value(ssm_values, case_sensitive, field)
       IN  call' = [NoCall EXCEPT !.op = "get_field_value", !.field = field,
                                  !.env_val = r.env_val, !.field_key = r.field_key,
                                  !.value_is_complex = r.value_is_complex]
    /\ UNCHANGED <<pc, caller, settings_cls, ssm_prefix, case_sensitive,
                   env_nested_delimiter, client_created, pages_requested,
                   output, ssm_values, exc, fetched, fetch_error, chain>>

\* the host passes the result of get_field_value to prepare_field_value
PrepareFieldValue ==
    /\ pc = "ready"
    /\ call.op = "get_field_value"
    /\ LET r == prepare_field_value(call.field, env_nested_delimiter, ssm_values,
                                    call.env_val, call.value_is_complex)
       IN  call' = [call EXCEPT !.op = "prepare_field_value",
                                !.raised = r.raised, !.value = r.value]
    /\ UNCHANGED <<pc, caller, settings_cls, ssm_prefix, case_sensitive,
                   env_nested_delimiter, client_created, pages_requested,
                   output, ssm_values, exc, fetched, fetch_error, chain>>

\* what each source of the chain holds for the field being resolved
Held(peers, ssm_value) ==
    [src \in PeerSources \cup {"ssm_settings"} |->
        IF src = "ssm_settings" THEN ssm_value ELSE peers[src]]

\* the host merges the field across the chain settings_customise_sources returned
MergeField(peers) ==
    /\ pc = "ready"
    /\ chain # <<>>
    /\ call.op = "prepare_field_value"
    /\ call.raised = ""
    /\ call' = [call EXCEPT !.op = "merge", !.peers = peers,
                            !.final = FirstPresent(chain, Held(peers, call.value), 1)]
    /\ UNCHANGED <<pc, caller, settings_cls, ssm_prefix, case_sensitive,
                   env_nested_delimiter, client_created, pages_requested,
                   output, ssm_values, exc, fetched, fetch_error, chain>>

\* descriptors _explode_ssm_values may be handed: a pydantic FieldInfo (what
\* model_fields holds) has no field_info attribute; a pydantic.v1 ModelField
\* of a v1 BaseSettings carries field_info.extra["env_names"]
FieldStyles == {"FieldInfo", "ModelField"}

\* field.field_info.extra["env_names"] of a pydantic.v1 ModelField
env_names(cs, field) ==
    {_extract_field_info(cs, field)[i].env_name :
        i \in 1..Len(_extract_field_info(cs, field))}

\* a direct call source._explode_ssm_values(field, source.ssm_values)
ExplodeSsmValues(field, style) ==
    /\ pc = "ready"
    /\ field \in model_fields(settings_cls)
    /\ LET r == IF style = "FieldInfo"
                THEN [raised |-> "AttributeError", value |-> None]
                ELSE _explode_ssm_values(env_names(case_sensitive, field),
                                         env_nested_delimiter, ssm_values)
       IN  call' = [NoCall EXCEPT !.op = "_explode_ssm_values", !.field = field,
                                  !.style = style, !.raised = r.raised, !.value = r.value]
    /\ UNCHANGED <<pc, caller, settings_cls, ssm_prefix, case_sensitive,
                   env_nested_delimiter, client_created, pages_requested,
                   output, ssm_values, exc, fetched, fetch_error, chain>>

Next ==
    \/ Construct
    \/ \E page \in Pages : FetchPage(page)
    \/ FetchDone
    \/ \E e \in FetchErrors : FetchFail(e)
    \/ \E cls \in SettingsClasses : \E field \in model_fields(cls) : GetFieldValue(field)
    \/ PrepareFieldValue
    \/ \E S \in SUBSET PeerSources :
           MergeField([src \in PeerSources |-> IF src \in S THEN PeerValue(src) ELSE None])
    \/ \E cls \in SettingsClasses : \E field \in model_fields(cls) :
           \E style \in FieldStyles : ExplodeSsmValues(field, style)

Spec == Init /\ [][Next]_vars

----------------------------------------------------------------------------
(* Properties *)

\* the key a fetched parameter is stored under
KeyOf(sp) == _apply_case_sensitive(case_sensitive, as_posix(sp.rel))

\* a field of plain type looked up under its own name
IsScalarField(field) == field.annotation = "str" /\ field.aliases = <<>>

\* the fetch ran to its end without an exception
FetchCompleted == pc = "ready" /\ fetch_error = ""

RECURSIVE Canon(_)
\* a Python value up to the order of dict entries (dict equality ignores it)
Canon(value) ==
    IF value.t = "dict"
    THEN [t |-> "dict",
          items |-> {<<value.d[i].k, Canon(value.d[i].v)>> : i \in 1..Len(value.d)}]
    ELSE value

\* C1: a non-absolute prefix makes construction raise the configuration
\* error (ValueError) with no client created and no page requested, in every
\* state of the run.
C1_NonAbsolutePrefixRaisesConfigError ==
    ~is_absolute(ssm_prefix.parts) =>
        /\ pc \in {"new", "raised"}
        /\ pc = "raised" => exc = "ValueError"
        /\ ~client_created
        /\ pages_requested = 0

C3_ScalarFieldGetsItsParameter ==
    (FetchCompleted /\ call.op = "prepare_field_value" /\ IsScalarField(call.field)) =>
        \A i \in 1..Len(fetched) :
            as_posix(fetched[i].rel) = call.field.name =>
                call.raised = "" /\ call.value = Str(fetched[i].Value)

\* C3 amended: after a complete fetch, a scalar field named K resolves to the
\* value of the last-fetched parameter whose key (relative path, lower-cased
\* when case_sensitive is false) equals the field's lookup key (env_prefix
\* and K, lower-cased likewise); that is the parameter at P/K itself when no
\* later parameter has the same key.
C3_ScalarFieldGetsLastParameterOfKey ==
    (FetchCompleted /\ call.op = "prepare_field_value" /\ IsScalarField(call.field)) =>
        \A i \in 1..Len(fetched) :
            ( /\ KeyOf(fetched[i]) =
                     _apply_case_sensitive(case_sensitive, env_prefix \o call.field.name)
              /\ \A j \in (i + 1)..Len(fetched) : KeyOf(fetched[j]) # KeyOf(fetched[i]) )
            => call.raised = "" /\ call.value = Str(fetched[i].Value)

\* a scalar field resolved from its parameter, with an earlier parameter
\* folding to the same key
C3_Witness ==
    /\ FetchCompleted
    /\ call.op = "prepare_field_value"
    /\ IsScalarField(call.field)
    /\ \E i, j \in 1..Len(fetched) :
           /\ i < j
           /\ KeyOf(fetched[i]) = KeyOf(fetched[j])
           /\ as_posix(fetched[j].rel) = call.field.name
           /\ call.value = Str(fetched[j].Value)
           /\ fetched[i].Value # fetched[j].Value

\* C4: for a complex field with a JSON object at P/foo and an override at
\* P/foo/bar, prepare_field_value returns a mapping whose sub-field bar has
\* the override value and whose other sub-fields have the base values.
C4_OverrideMergedIntoBase ==
    ( /\ call.op = "prepare_field_value"
      /\ field_is_complex(call.field)
      /\ call.env_val # None
      /\ json_loads(call.env_val.s).raised = ""
      /\ json_loads(call.env_val.s).value.t = "dict" ) =>
        LET base == json_loads(call.env_val.s).value.d
            lookup == _apply_case_sensitive(case_sensitive, call.field_key)
            Override(sub) == DictGet(ssm_values, lookup \o s_root \o sub)
        IN  /\ call.raised = ""
            /\ call.value.t = "dict"
            /\ \A i \in 1..Len(base) :
                   DictGet(call.value.d, base[i].k) =
                       IF Override(base[i].k) # None
                       THEN Override(base[i].k) ELSE base[i].v

\* C5: with an absolute prefix, an exception raised while a page is
\* requested never leaves __init__: construction completes.
C5_FetchErrorsNeverPropagate ==
    (is_absolute(ssm_prefix.parts) /\ fetch_error # "") =>
        pc = "ready" /\ exc = ""

\* C6: when the paginated fetch fails on any page, the mapping load_from_ssm
\* returns is empty.
C6_FailedFetchYieldsEmptyMapping ==
    (pc = "ready" /\ fetch_error # "") => ssm_values = <<>>

\* C7: when a direct value was found and its JSON decoding fails, a directly
\* complex field raises the decode error and a union field with a complex
\* branch returns the raw string; allow_parse_failure is true for the latter
\* only.
C7_DecodeFailurePolicy ==
    /\ ( /\ call.op = "prepare_field_value"
         /\ call.env_val # None
         /\ json_loads(call.env_val.s).raised # "" ) =>
           /\ call.field.annotation = "ChildSetting" => call.raised = "ValueError"
           /\ call.field.annotation = "Union[ChildSetting, str]" =>
                  call.raised = "" /\ call.value = call.env_val
    /\ \A field \in model_fields(settings_cls) :
           _field_is_complex(field).allow_parse_failure <=>
               field.annotation = "Union[ChildSetting, str]"

\* a union field with a complex branch whose value is no JSON document
C7_Witness ==
    /\ call.op = "prepare_field_value"
    /\ call.field.annotation = "Union[ChildSetting, str]"
    /\ call.env_val = Str(s_bad)
    /\ call.value = Str(s_bad)
    /\ call.raised = ""

\* C8: after fetching an empty store the mapping is empty, get_field_value
\* finds no value for any field and prepare_field_value returns None without
\* raising.
C8_EmptyStoreLeavesFieldsAbsent ==
    (FetchCompleted /\ fetched = <<>>) =>
        /\ ssm_values = <<>>
        /\ call.op = "get_field_value" => call.env_val = None
        /\ call.op = "prepare_field_value" =>
               call.raised = "" /\ call.value = None

\* one key of the mapping placed as C9 describes: the remainder after the
\* matching prefix, split on the delimiter, is the path of the value
ClaimedPlace(result, prefixes, delimiter, entry) ==
    LET prefix == CHOOSE p \in prefixes : StartsWith(entry.k, p)
        segments == Split(SubSeq(entry.k, Len(prefix) + 1, Len(entry.k)), delimiter)
    IN  SetAtPath(result, SubSeq(segments, 1, Len(segments) - 1),
                  segments[Len(segments)], entry.v).d

RECURSIVE ClaimedExplodeFrom(_, _, _, _, _)
ClaimedExplodeFrom(result, prefixes, delimiter, env_vars, i) ==
    IF i > Len(env_vars) THEN result
    ELSE IF \E p \in prefixes : StartsWith(env_vars[i].k, p) /\ env_vars[i].k # p
    THEN ClaimedExplodeFrom(ClaimedPlace(result, prefixes, delimiter, env_vars[i]),
                            prefixes, delimiter, env_vars, i + 1)
    ELSE ClaimedExplodeFrom(result, prefixes, delimiter, env_vars, i + 1)

\* the nested mapping C9 describes for a field
ClaimedExplode(field) ==
    ClaimedExplodeFrom(<<>>,
        {n \o Format(env_nested_delimiter) : n \in env_names(case_sensitive, field)},
        env_nested_delimiter, ssm_values, 1)

\* C9: for a complex field without a direct value prepare_field_value
\* returns the nested mapping of the keys below the field's prefixes, each
\* value placed at the path its remainder after the prefix spells, when that
\* mapping is non-empty and None otherwise; for every field name.
C9_PrepareReturnsExplodedMapping ==
    ( /\ call.op = "prepare_field_value"
      /\ _field_is_complex(call.field).is_complex
      /\ call.env_val = None ) =>
        /\ call.raised = ""
        /\ Canon(call.value) =
               IF ClaimedExplode(call.field) # <<>>
               THEN Canon(Dict(ClaimedExplode(call.field))) ELSE None

\* the same nested mapping, of _explode_ssm_values called on its own with a
\* descriptor that carries env_names
ExplodeAlgorithmAsClaimed ==
    (call.op = "_explode_ssm_values" /\ call.style = "ModelField") =>
        /\ call.raised = ""
        /\ Canon(call.value) = Canon(Dict(ClaimedExplode(call.field)))

\* C10: once __init__ has built ssm_values, no get_field_value,
\* prepare_field_value or other call changes it, and no page is requested
\* and no client created again.
C10_SsmValuesImmutable ==
    [][pc = "ready" =>
          /\ pc' = "ready"
          /\ ssm_values' = ssm_values
          /\ pages_requested' = pages_requested
          /\ client_created' = client_created]_vars

\* a field decoded by prepare_field_value from a non-empty mapping
C10_Witness ==
    /\ pc = "ready"
    /\ call.op = "prepare_field_value"
    /\ call.env_val # None
    /\ call.value.t = "int"
    /\ Len(ssm_values) > 1

====
